---- MODULE Spec2Model ----
(***************************************************************************)
(* Model of src/src/scanner.rs (day 19, "beacon scanner"): the rotation    *)
(* table, Beacon arithmetic, the per-scanner distance fingerprints, the    *)
(* pairwise matcher (par_intersection / find_by_distances / find_offset /  *)
(* check_rotation) and the Mapper::correlate loop with largest_distance.   *)
(*                                                                         *)
(* Conventions.  A Beacon is the tuple <<x, y, z>> of its coords.  An      *)
(* Option is a tuple of length 0 (None) or 1 (Some).  Scanner ids are the  *)
(* 0-based positions of Mapper::scanners; positions inside a beacon list   *)
(* are 1-based (position k here is index k-1 in the source).  Coordinates  *)
(* stay far below 2^63, so i64 arithmetic is modelled by Int.  The         *)
(* iteration order of an FxHashSet clone is not specified by the source:   *)
(* the loops over solved.clone() and pending.clone() take the remaining    *)
(* elements in any order.                                                  *)
(***************************************************************************)
EXTENDS Integers, Sequences, FiniteSets, TLC

VARIABLES
    truth,            \* how the input was built: per scanner [view, rot, trans]
    input,            \* the parsed input: per scanner id its beacon list
    scanners,         \* Mapper::scanners, id -> [index, beacons, dist_map, offset]
    beacons,          \* the caller's FxHashSet<Beacon> handed to correlate
    solved,           \* correlate: solved
    pending,          \* correlate: pending
    already_checked,  \* correlate: already_checked
    pc,               \* position inside correlate (or inside the matcher harness)
    r_iter,           \* elements of solved.clone() not yet visited in this pass
    r_idx,            \* the reference id of the running inner loop
    p_iter,           \* elements of pending.clone() not yet visited for r_idx
    passes,           \* number of passes of the outer `loop` started so far
    placed_in_pass,   \* number of placements made in the running pass
    last,             \* outcome of the most recent matcher attempt
    par_todo,         \* (par_)intersection: positions whose lookup has not completed
    par_done,         \* (par_)intersection: completed lookups, in completion order
    first_call        \* what an earlier call of correlate on this Mapper left behind

vars == <<truth, input, scanners, beacons, solved, pending, already_checked,
          pc, r_iter, r_idx, p_iter, passes, placed_in_pass, last,
          par_todo, par_done, first_call>>

-----------------------------------------------------------------------------
(* Bounds of the model                                                     *)

MaxScanners == 3
MaxTrans == 1
MaxPasses == 4

-----------------------------------------------------------------------------
(* Options and small helpers                                               *)

None == << >>
Some(v) == <<v>>
IsSome(o) == Len(o) = 1
Unwrap(o) == o[1]

Range(s) == {s[i] : i \in DOMAIN s}
Abs(n) == IF n < 0 THEN -n ELSE n
SetMax(S) == CHOOSE m \in S : \A k \in S : k <= m
SetMin(S) == CHOOSE m \in S : \A k \in S : m <= k
\* the element of a one-element set
TheOne(S) == CHOOSE x \in S : TRUE

-----------------------------------------------------------------------------
(* ROTATIONS and Beacon                                                    *)

\* the table with its last entry replaced by the point reflection
ROTATIONS_with_reflection == <<
    << << 1,  1,  1>>, <<0, 1, 2>> >>,
    << << 1, -1,  1>>, <<1, 0, 2>> >>,
    << <<-1, -1,  1>>, <<0, 1, 2>> >>,
    << <<-1,  1,  1>>, <<1, 0, 2>> >>,
    << << 1,  1, -1>>, <<2, 1, 0>> >>,
    << << 1, -1, -1>>, <<1, 2, 0>> >>,
    << <<-1, -1, -1>>, <<2, 1, 0>> >>,
    << <<-1,  1, -1>>, <<1, 2, 0>> >>,
    << << 1, -1, -1>>, <<2, 0, 1>> >>,
    << <<-1, -1, -1>>, <<0, 2, 1>> >>,
    << <<-1,  1, -1>>, <<2, 0, 1>> >>,
    << << 1,  1, -1>>, <<0, 2, 1>> >>,
    << << 1, -1,  1>>, <<2, 1, 0>> >>,
    << <<-1, -1,  1>>, <<1, 2, 0>> >>,
    << <<-1,  1,  1>>, <<2, 1, 0>> >>,
    << << 1,  1,  1>>, <<1, 2, 0>> >>,
    << << 1,  1,  1>>, <<2, 0, 1>> >>,
    << << 1, -1,  1>>, <<0, 2, 1>> >>,
    << <<-1, -1,  1>>, <<2, 0, 1>> >>,
    << <<-1,  1,  1>>, <<0, 2, 1>> >>,
    << <<-1,  1, -1>>, <<0, 1, 2>> >>,
    << << 1,  1, -1>>, <<1, 0, 2>> >>,
    << << 1, -1, -1>>, <<0, 1, 2>> >>,
    << <<-1, -1, -1>>, <<0, 1, 2>> >>
>>

ROTATIONS == <<
    << << 1,  1,  1>>, <<0, 1, 2>> >>,
    << << 1, -1,  1>>, <<1, 0, 2>> >>,
    << <<-1, -1,  1>>, <<0, 1, 2>> >>,
    << <<-1,  1,  1>>, <<1, 0, 2>> >>,
    << << 1,  1, -1>>, <<2, 1, 0>> >>,
    << << 1, -1, -1>>, <<1, 2, 0>> >>,
    << <<-1, -1, -1>>, <<2, 1, 0>> >>,
    << <<-1,  1, -1>>, <<1, 2, 0>> >>,
    << << 1, -1, -1>>, <<2, 0, 1>> >>,
    << <<-1, -1, -1>>, <<0, 2, 1>> >>,
    << <<-1,  1, -1>>, <<2, 0, 1>> >>,
    << << 1,  1, -1>>, <<0, 2, 1>> >>,
    << << 1, -1,  1>>, <<2, 1, 0>> >>,
    << <<-1, -1,  1>>, <<1, 2, 0>> >>,
    << <<-1,  1,  1>>, <<2, 1, 0>> >>,
    << << 1,  1,  1>>, <<1, 2, 0>> >>,
    << << 1,  1,  1>>, <<2, 0, 1>> >>,
    << << 1, -1,  1>>, <<0, 2, 1>> >>,
    << <<-1, -1,  1>>, <<2, 0, 1>> >>,
    << <<-1,  1,  1>>, <<0, 2, 1>> >>,
    << <<-1,  1, -1>>, <<0, 1, 2>> >>,
    << << 1,  1, -1>>, <<1, 0, 2>> >>,
    << << 1, -1, -1>>, <<0, 1, 2>> >>,
    << <<-1, -1, -1>>, <<1, 0, 2>> >>
>>

\* ROTATIONS.len(); rotation indices are 0 .. NumRotations - 1
NumRotations == Len(ROTATIONS)

THRESHOLD == 6

dist_squared(a, b) ==
    LET dx == a[1] - b[1]
        dy == a[2] - b[2]
        dz == a[3] - b[3]
    IN  dx * dx + dy * dy + dz * dz

\* the largest of the three coordinate differences instead of their sum
manhattan_largest_axis(a, b) ==
    SetMax({Abs(a[1] - b[1]), Abs(a[2] - b[2]), Abs(a[3] - b[3])})

manhattan(a, b) == Abs(a[1] - b[1]) + Abs(a[2] - b[2]) + Abs(a[3] - b[3])

\* Beacon::offset: self - other
offset(a, b) == <<a[1] - b[1], a[2] - b[2], a[3] - b[3]>>

translate(b, by) == <<b[1] + by[1], b[2] + by[2], b[3] + by[3]>>

\* a table lookup that reads the first source axis for the third coordinate too
rotation_repeats_axis(b, idx) ==
    LET signs == ROTATIONS[idx + 1][1]
        pos   == ROTATIONS[idx + 1][2]
    IN  << signs[1] * b[pos[1] + 1],
           signs[2] * b[pos[2] + 1],
           signs[3] * b[pos[1] + 1] >>

rotation(b, idx) ==
    LET signs == ROTATIONS[idx + 1][1]
        pos   == ROTATIONS[idx + 1][2]
    IN  << signs[1] * b[pos[1] + 1],
           signs[2] * b[pos[2] + 1],
           signs[3] * b[pos[3] + 1] >>

\* Option<Beacon>::unwrap_or_default
unwrap_or_default(o) == IF IsSome(o) THEN Unwrap(o) ELSE <<0, 0, 0>>

-----------------------------------------------------------------------------
(* Scanner                                                                 *)

\* the dist_pre_map of Scanner::new: per beacon, distance -> occurrences
dist_pre_map(bs) ==
    [i \in 1..Len(bs) |->
        LET others == (1..Len(bs)) \ {i}
            dists  == {dist_squared(bs[i], bs[j]) : j \in others}
        IN  [d \in dists |->
                Cardinality({j \in others : dist_squared(bs[i], bs[j]) = d})]]

\* a dist_map that records each distance once, however often it occurs
dist_map_of_distinct(bs) ==
    LET pre == dist_pre_map(bs)
    IN  [i \in 1..Len(bs) |->
            {[dist |-> k, instance |-> 0] : k \in DOMAIN pre[i]}]

\* the dist_map of Scanner::new: a distance seen v times gives instances 0..v-1
dist_map_of(bs) ==
    LET pre == dist_pre_map(bs)
    IN  [i \in 1..Len(bs) |->
            UNION {{[dist |-> k, instance |-> n] : n \in 0..(pre[i][k] - 1)}
                   : k \in DOMAIN pre[i]}]

ScannerNew(index, bs) ==
    [index |-> index, beacons |-> bs, dist_map |-> dist_map_of(bs), offset |-> None]

\* transform with the two steps swapped: translate, then rotate
transform_translate_first(s, rot, trans) ==
    [s EXCEPT !.beacons = [i \in 1..Len(s.beacons) |->
                               rotation(translate(s.beacons[i], trans), rot)],
              !.offset = Some(trans)]

transform(s, rot, trans) ==
    [s EXCEPT !.beacons = [i \in 1..Len(s.beacons) |->
                               translate(rotation(s.beacons[i], rot), trans)],
              !.offset = Some(trans)]

\* Scanner::find_by_distances, scanning the positions from idx on
RECURSIVE find_from(_, _, _)
find_from(self, distances, idx) ==
    IF idx > Len(self.dist_map) THEN None
    ELSE IF Cardinality(distances \cap self.dist_map[idx]) >= THRESHOLD - 1
         THEN Some(idx)
         ELSE find_from(self, distances, idx + 1)

find_by_distances(self, distances) == find_from(self, distances, 1)

\* par_intersection without the THRESHOLD test on the number of pairs
par_intersection_any_length(self, other) ==
    LET n     == Len(self.dist_map)
        hit   == [i \in 1..n |-> find_by_distances(other, self.dist_map[i])]
        Found(i) == IsSome(hit[i])
        idxs  == SelectSeq([i \in 1..n |-> i], Found)
        res   == [k \in 1..Len(idxs) |->
                     <<self.beacons[idxs[k]], other.beacons[Unwrap(hit[idxs[k]])]>>]
    IN  IF Len(res) < 1 THEN None ELSE Some(res)

\* Scanner::par_intersection: the indexed parallel collect keeps the order of
\* self.dist_map, so the result is the list a sequential scan gives
par_intersection(self, other) ==
    LET n     == Len(self.dist_map)
        hit   == [i \in 1..n |-> find_by_distances(other, self.dist_map[i])]
        Found(i) == IsSome(hit[i])
        idxs  == SelectSeq([i \in 1..n |-> i], Found)
        res   == [k \in 1..Len(idxs) |->
                     <<self.beacons[idxs[k]], other.beacons[Unwrap(hit[idxs[k]])]>>]
    IN  IF Len(res) < THRESHOLD THEN None ELSE Some(res)

-----------------------------------------------------------------------------
(* Mapper: the matcher                                                     *)

\* Mapper::check_rotation: the loop over intersection.iter().take(THRESHOLD)
RECURSIVE check_from(_, _, _, _)
check_from(rot, intersection, k, prev) ==
    IF k > Len(intersection) \/ k > THRESHOLD THEN prev
    ELSE LET delta == offset(intersection[k][1], rotation(intersection[k][2], rot))
         IN  IF IsSome(prev)
             THEN IF delta # Unwrap(prev) THEN None
                  ELSE check_from(rot, intersection, k + 1, prev)
             ELSE check_from(rot, intersection, k + 1, Some(delta))

\* check_rotation that takes the offset of the first pair and compares nothing
check_rotation_first_pair(rot, intersection) ==
    IF Len(intersection) = 0 THEN None
    ELSE Some(offset(intersection[1][1], rotation(intersection[1][2], rot)))

check_rotation(rot, intersection) == check_from(rot, intersection, 1, None)

\* Mapper::find_offset: the first rotation index with a consistent offset
RECURSIVE find_offset_from(_, _)
find_offset_from(rot, intersection) ==
    IF rot >= NumRotations THEN None
    ELSE LET off == check_rotation(rot, intersection)
         IN  IF IsSome(off) THEN Some(<<rot, Unwrap(off)>>)
             ELSE find_offset_from(rot + 1, intersection)

find_offset(intersection) == find_offset_from(0, intersection)

\* The matcher as correlate uses it: par_intersection, then find_offset
\* (the intersection is bound once, as the `if let` binds it)
Matcher(ref, pend) ==
    TheOne({IF IsSome(inter) THEN find_offset(Unwrap(inter)) ELSE None
            : inter \in {par_intersection(ref, pend)}})

\* largest_distance that answers zero when there is no pair of scanners
largest_distance_or_zero(scs) ==
    LET ids == DOMAIN scs
        ds  == {manhattan(unwrap_or_default(scs[c[1]].offset),
                          unwrap_or_default(scs[c[2]].offset))
                : c \in {c \in ids \X ids : c[1] < c[2]}}
    IN  Some(SetMax(ds \cup {0}))

\* Mapper::largest_distance
largest_distance(scs) ==
    LET ids == DOMAIN scs
        ds  == {manhattan(unwrap_or_default(scs[c[1]].offset),
                          unwrap_or_default(scs[c[2]].offset))
                : c \in {c \in ids \X ids : c[1] < c[2]}}
    IN  IF ds = {} THEN None ELSE Some(SetMax(ds))

-----------------------------------------------------------------------------
(* Inputs: landmark lists ("views" of a small world) and how they are posed *)

\* six landmarks on one line (the x axis), pairwise different gaps
Line == << <<0, 0, 0>>, <<1, 0, 0>>, <<3, 0, 0>>, <<7, 0, 0>>, <<12, 0, 0>>, <<20, 0, 0>> >>

PX == <<2, 5, 1>>
PY == <<4, -3, 6>>

\* five landmarks in the plane z = 0, one above it and its mirror image below
Flat == << <<0, 0, 0>>, <<1, 0, 0>>, <<0, 2, 0>>, <<4, 3, 0>>, <<7, -1, 0>> >>
Up   == <<2, 1, 3>>
Down == <<2, 1, -3>>
Up2   == <<5, -2, 4>>
Down2 == <<5, -2, -4>>

ViewOf == [
    Va  |-> Line \o <<PX>>,
    Vb  |-> Line \o <<PY>>,
    Vc  |-> SubSeq(Line, 1, 5) \o <<PX, PY>>,
    Ve  |-> SubSeq(Line, 2, 5) \o <<PX, PY>>,
    Vl  |-> Line,
    Vz  |-> << <<30, 1, 2>>, <<31, 4, 9>>, <<35, -2, 3>>,
               <<38, 7, -5>>, <<44, 0, 8>>, <<47, -6, -1>> >>,
    \* a reference whose first landmark sits above a flat group, and a pending
    \* list that also holds the mirror image of that landmark, listed first
    A3  |-> <<Up>> \o Flat,
    B3  |-> <<Down, Up>> \o Flat,
    \* a reference that lists one landmark twice
    A6  |-> <<Flat[1]>> \o Flat \o <<Up>>,
    B6  |-> Flat \o <<Down>>,
    \* a reference that lists one landmark three times
    A5  |-> <<Flat[1], Flat[1]>> \o SubSeq(Flat, 1, 4) \o <<Up, Up2>>,
    B5  |-> SubSeq(Flat, 1, 4) \o <<Down, Down2>>,
    \* a block without landmarks
    V0  |-> << >>,
    \* six landmarks in the plane z = 0 listed first, then one above the plane
    \* in the reference and its mirror image in the pending list
    A7  |-> Flat \o << <<3, -4, 0>>, Up >>,
    B7  |-> Flat \o << <<3, -4, 0>>, Down >>,
    \* two readings with one pair of matching fingerprints only: a landmark at
    \* squared distances 1, 4, 9, 16, 25 from the five others
    A1  |-> << <<0, 0, 0>>, <<1, 0, 0>>, <<0, 2, 0>>, <<0, 0, 3>>,
               <<-4, 0, 0>>, <<0, -5, 0>> >>,
    B1  |-> << <<0, 0, 0>>, <<1, 0, 0>>, <<2, 0, 0>>, <<3, 0, 0>>,
               <<4, 0, 0>>, <<5, 0, 0>> >>,
    \* the five scanners of the worked example (tests::mapping::solution)
    Ex0 |-> <<
        <<404, -588, -901>>, <<528, -643, 409>>, <<-838, 591, 734>>, <<390, -675, -793>>,
        <<-537, -823, -458>>, <<-485, -357, 347>>, <<-345, -311, 381>>, <<-661, -816, -575>>,
        <<-876, 649, 763>>, <<-618, -824, -621>>, <<553, 345, -567>>, <<474, 580, 667>>,
        <<-447, -329, 318>>, <<-584, 868, -557>>, <<544, -627, -890>>, <<564, 392, -477>>,
        <<455, 729, 728>>, <<-892, 524, 684>>, <<-689, 845, -530>>, <<423, -701, 434>>,
        <<7, -33, -71>>, <<630, 319, -379>>, <<443, 580, 662>>, <<-789, 900, -551>>,
        <<459, -707, 401>> >>,
    Ex1 |-> <<
        <<686, 422, 578>>, <<605, 423, 415>>, <<515, 917, -361>>, <<-336, 658, 858>>,
        <<95, 138, 22>>, <<-476, 619, 847>>, <<-340, -569, -846>>, <<567, -361, 727>>,
        <<-460, 603, -452>>, <<669, -402, 600>>, <<729, 430, 532>>, <<-500, -761, 534>>,
        <<-322, 571, 750>>, <<-466, -666, -811>>, <<-429, -592, 574>>, <<-355, 545, -477>>,
        <<703, -491, -529>>, <<-328, -685, 520>>, <<413, 935, -424>>, <<-391, 539, -444>>,
        <<586, -435, 557>>, <<-364, -763, -893>>, <<807, -499, -711>>, <<755, -354, -619>>,
        <<553, 889, -390>> >>,
    Ex2 |-> <<
        <<649, 640, 665>>, <<682, -795, 504>>, <<-784, 533, -524>>, <<-644, 584, -595>>,
        <<-588, -843, 648>>, <<-30, 6, 44>>, <<-674, 560, 763>>, <<500, 723, -460>>,
        <<609, 671, -379>>, <<-555, -800, 653>>, <<-675, -892, -343>>, <<697, -426, -610>>,
        <<578, 704, 681>>, <<493, 664, -388>>, <<-671, -858, 530>>, <<-667, 343, 800>>,
        <<571, -461, -707>>, <<-138, -166, 112>>, <<-889, 563, -600>>, <<646, -828, 498>>,
        <<640, 759, 510>>, <<-630, 509, 768>>, <<-681, -892, -333>>, <<673, -379, -804>>,
        <<-742, -814, -386>>, <<577, -820, 562>> >>,
    Ex3 |-> <<
        <<-589, 542, 597>>, <<605, -692, 669>>, <<-500, 565, -823>>, <<-660, 373, 557>>,
        <<-458, -679, -417>>, <<-488, 449, 543>>, <<-626, 468, -788>>, <<338, -750, -386>>,
        <<528, -832, -391>>, <<562, -778, 733>>, <<-938, -730, 414>>, <<543, 643, -506>>,
        <<-524, 371, -870>>, <<407, 773, 750>>, <<-104, 29, 83>>, <<378, -903, -323>>,
        <<-778, -728, 485>>, <<426, 699, 580>>, <<-438, -605, -362>>, <<-469, -447, -387>>,
        <<509, 732, 623>>, <<647, 635, -688>>, <<-868, -804, 481>>, <<614, -800, 639>>,
        <<595, 780, -596>> >>,
    Ex4 |-> <<
        <<727, 592, 562>>, <<-293, -554, 779>>, <<441, 611, -461>>, <<-714, 465, -776>>,
        <<-743, 427, -804>>, <<-660, -479, -426>>, <<832, -632, 460>>, <<927, -485, -438>>,
        <<408, 393, -506>>, <<466, 436, -512>>, <<110, 16, 151>>, <<-258, -428, 682>>,
        <<-393, 719, 612>>, <<-211, -452, 876>>, <<808, -476, -593>>, <<-575, 615, 604>>,
        <<-485, 667, 467>>, <<-680, 325, -822>>, <<-627, -443, -432>>, <<872, -547, -609>>,
        <<833, 512, 582>>, <<807, 604, 487>>, <<839, -516, 451>>, <<891, -625, 532>>,
        <<-652, -548, -490>>, <<30, -46, -14>> >>
]

\* the translations a sensor may be posed with
Translations == {<<7 * k, -3 * k, 11 * k>> : k \in 0..MaxTrans}

\* the rotation indices a pending sensor may be posed with in the correlate runs
PoseRots == {0, 5, 17}

\* a sensor's local reading of a view: every landmark rotated, then translated
Pose(view, rot, trans) ==
    [k \in 1..Len(view) |-> translate(rotation(view[k], rot), trans)]

\* the lists of views fed to correlate (scanner ids 0, 1, ...)
AllScenarios == {
    << >>,
    <<"Va">>,
    <<"A6">>,
    <<"Va", "Vz">>,
    <<"Va", "Vc">>,
    <<"A3", "B3">>,
    <<"A6", "B6">>,
    <<"A5", "B5">>,
    <<"A1", "B1">>,
    <<"A7", "B7">>,
    <<"Va", "Vb", "Vc">>,
    <<"Va", "Ve", "Vc">>,
    <<"Va", "Vz", "Vc">>,
    <<"A3", "B3", "Vz">>,
    <<"Va", "Ve", "Vc", "Vb">>
}

Scenarios == {sc \in AllScenarios : Len(sc) <= MaxScanners}

\* Mapper::try_from: one Scanner::new per block, in input order
MapperNew(inp) == [i \in DOMAIN inp |-> ScannerNew(i, inp[i])]

-----------------------------------------------------------------------------
(* Mapper::correlate                                                       *)

NoAttempt == [r |-> 0, p |-> 0, kind |-> "none", inter |-> None, found |-> None]

\* the outcome of find_offset on the intersection found for the pair (r, p)
attempt_offset(r, p, inter) ==
    TheOne({[r |-> r, p |-> p,
             kind |-> IF IsSome(found) THEN "placed" ELSE "no_offset",
             inter |-> inter, found |-> found]
            : found \in {find_offset(Unwrap(inter))}})

\* one trip through the body of the inner loop for a pair that is not
\* memoized (the two `if let` bind their values once)
attempt(scs, r, p) ==
    TheOne({IF IsSome(inter)
            THEN attempt_offset(r, p, inter)
            ELSE [r |-> r, p |-> p, kind |-> "memo", inter |-> None, found |-> None]
            : inter \in {par_intersection(scs[r], scs[p])}})

\* a memo key that names the pending sensor only
cache_key_pending_only(r, p) == <<p, p>>

cache_key(r, p) == <<IF r < p THEN r ELSE p, IF r < p THEN p ELSE r>>

InitCorrelate(tr) ==
    /\ truth = tr
    /\ input = [i \in DOMAIN tr |-> Pose(ViewOf[tr[i].view], tr[i].rot, tr[i].trans)]
    /\ scanners = MapperNew(input)
    /\ beacons = {}
    /\ solved = {}
    /\ pending = {}
    /\ already_checked = {}
    /\ pc = "start"
    /\ r_iter = {}
    /\ r_idx = 0
    /\ p_iter = {}
    /\ passes = 0
    /\ placed_in_pass = 0
    /\ last = NoAttempt
    /\ par_todo = {}
    /\ par_done = << >>
    /\ first_call = None

\* scanner 0 is read as it is; every other scanner is posed freely
Truths ==
    UNION {{[i \in 0..(Len(sc) - 1) |->
                [view |-> sc[i + 1],
                 rot |-> IF i = 0 THEN 0 ELSE ps[i][1],
                 trans |-> IF i = 0 THEN <<0, 0, 0>> ELSE ps[i][2]]]
            : ps \in [1..(Len(sc) - 1) -> PoseRots \X Translations]}
           : sc \in Scenarios}

Init == \E tr \in Truths : InitCorrelate(tr)

\* the setup that puts the landmarks of every scanner into the set
Start_inserts_all ==
    /\ pc = "start"
    /\ IF DOMAIN scanners = {}
       THEN /\ pc' = "done"
            /\ UNCHANGED <<beacons, solved, pending, already_checked>>
       ELSE /\ solved' = {0}
            /\ pending' = 1..(Cardinality(DOMAIN scanners) - 1)
            /\ beacons' = beacons \cup
                              UNION {Range(scanners[i].beacons) : i \in DOMAIN scanners}
            /\ already_checked' = {}
            /\ pc' = "loop"
    /\ UNCHANGED <<first_call, par_todo, par_done, truth, input, scanners, r_iter, r_idx, p_iter, passes,
                   placed_in_pass, last>>

\* the setup with the anchor left among the pending sensors as well
Start_anchor_pending ==
    /\ pc = "start"
    /\ IF DOMAIN scanners = {}
       THEN /\ pc' = "done"
            /\ UNCHANGED <<beacons, solved, pending, already_checked>>
       ELSE /\ solved' = {0}
            /\ pending' = 0..(Cardinality(DOMAIN scanners) - 1)
            /\ beacons' = beacons \cup Range(scanners[0].beacons)
            /\ already_checked' = {}
            /\ pc' = "loop"
    /\ UNCHANGED <<first_call, par_todo, par_done, truth, input, scanners, r_iter, r_idx, p_iter, passes,
                   placed_in_pass, last>>

\* lines 339-354: the early return, the anchor and the three sets
Start ==
    /\ pc = "start"
    /\ IF DOMAIN scanners = {}
       THEN /\ pc' = "done"
            /\ UNCHANGED <<beacons, solved, pending, already_checked>>
       ELSE /\ solved' = {0}
            /\ pending' = 1..(Cardinality(DOMAIN scanners) - 1)
            /\ beacons' = beacons \cup Range(scanners[0].beacons)
            /\ already_checked' = {}
            /\ pc' = "loop"
    /\ UNCHANGED <<first_call, par_todo, par_done, truth, input, scanners, r_iter, r_idx, p_iter, passes,
                   placed_in_pass, last>>

\* a pass that takes the anchor as its only reference
PassBegin_anchor_only ==
    /\ pc = "loop"
    /\ passes < MaxPasses
    /\ r_iter' = {0}
    /\ passes' = passes + 1
    /\ placed_in_pass' = 0
    /\ pc' = "outer"
    /\ UNCHANGED <<first_call, par_todo, par_done, truth, input, scanners, beacons, solved, pending,
                   already_checked, r_idx, p_iter, last>>

\* line 356-357: a pass begins with a clone of solved
PassBegin ==
    /\ pc = "loop"
    /\ passes < MaxPasses
    /\ r_iter' = solved
    /\ passes' = passes + 1
    /\ placed_in_pass' = 0
    /\ pc' = "outer"
    /\ UNCHANGED <<first_call, par_todo, par_done, truth, input, scanners, beacons, solved, pending,
                   already_checked, r_idx, p_iter, last>>

\* the inner loop offered every other scanner, placed ones included
OuterNext_any_candidate ==
    /\ pc = "outer"
    /\ \E r \in r_iter :
        /\ r_idx' = r
        /\ r_iter' = r_iter \ {r}
        /\ p_iter' = DOMAIN scanners \ {r}
    /\ pc' = "inner"
    /\ UNCHANGED <<first_call, par_todo, par_done, truth, input, scanners, beacons, solved, pending,
                   already_checked, passes, placed_in_pass, last>>

\* line 357-358: the next reference, and a clone of pending for it
OuterNext ==
    /\ pc = "outer"
    /\ \E r \in r_iter :
        /\ r_idx' = r
        /\ r_iter' = r_iter \ {r}
    /\ p_iter' = pending
    /\ pc' = "inner"
    /\ UNCHANGED <<first_call, par_todo, par_done, truth, input, scanners, beacons, solved, pending,
                   already_checked, passes, placed_in_pass, last>>

\* the outer for loop is exhausted
OuterDone ==
    /\ pc = "outer"
    /\ r_iter = {}
    /\ pc' = "check"
    /\ UNCHANGED <<first_call, par_todo, par_done, truth, input, scanners, beacons, solved, pending,
                   already_checked, r_iter, r_idx, p_iter, passes,
                   placed_in_pass, last>>

\* lines 359-362: a memoized pair is skipped
InnerSkip ==
    /\ pc = "inner"
    /\ \E p \in p_iter :
        /\ cache_key(r_idx, p) \in already_checked
        /\ p_iter' = p_iter \ {p}
    /\ UNCHANGED <<first_call, par_todo, par_done, truth, input, scanners, beacons, solved, pending,
                   already_checked, pc, r_iter, r_idx, passes, placed_in_pass,
                   last>>

\* the inner loop body that gives up on a sensor the matcher found no match for
InnerAttempt_drops_on_failure ==
    /\ pc = "inner"
    /\ \E p \in p_iter :
        /\ cache_key(r_idx, p) \notin already_checked
        /\ \E a \in {attempt(scanners, r_idx, p)} :
            /\ last' = a
            /\ p_iter' = p_iter \ {p}
            /\ IF a.kind = "placed"
               THEN \E s \in {transform(scanners[p], Unwrap(a.found)[1],
                                        Unwrap(a.found)[2])} :
                        /\ scanners' = [scanners EXCEPT ![p] = s]
                        /\ beacons' = beacons \cup Range(s.beacons)
                        /\ pending' = pending \ {p}
                        /\ solved' = solved \cup {p}
                        /\ placed_in_pass' = placed_in_pass + 1
                        /\ pc' = "outer"
                        /\ UNCHANGED already_checked
               ELSE /\ already_checked' =
                          IF a.kind = "memo"
                          THEN already_checked \cup {cache_key(r_idx, p)}
                          ELSE already_checked
                    /\ pending' = pending \ {p}
                    /\ UNCHANGED <<scanners, beacons, solved,
                                   placed_in_pass, pc>>
    /\ UNCHANGED <<first_call, par_todo, par_done, truth, input, r_iter, r_idx, passes>>

\* the inner loop body that inserts the placed sensor's landmarks as they were
\* before the transform
InnerAttempt_inserts_untransformed ==
    /\ pc = "inner"
    /\ \E p \in p_iter :
        /\ cache_key(r_idx, p) \notin already_checked
        /\ \E a \in {attempt(scanners, r_idx, p)} :
            /\ last' = a
            /\ p_iter' = p_iter \ {p}
            /\ IF a.kind = "placed"
               THEN \E s \in {transform(scanners[p], Unwrap(a.found)[1],
                                        Unwrap(a.found)[2])} :
                        /\ scanners' = [scanners EXCEPT ![p] = s]
                        /\ beacons' = beacons \cup Range(scanners[p].beacons)
                        /\ pending' = pending \ {p}
                        /\ solved' = solved \cup {p}
                        /\ placed_in_pass' = placed_in_pass + 1
                        /\ pc' = "outer"
                        /\ UNCHANGED already_checked
               ELSE /\ already_checked' =
                          IF a.kind = "memo"
                          THEN already_checked \cup {cache_key(r_idx, p)}
                          ELSE already_checked
                    /\ UNCHANGED <<scanners, beacons, pending, solved,
                                   placed_in_pass, pc>>
    /\ UNCHANGED <<first_call, par_todo, par_done, truth, input, r_iter, r_idx, passes>>

\* lines 364-380: the matcher runs on the pair; a match places the sensor and
\* breaks the inner loop, a failed par_intersection memoizes the pair, a
\* failed find_offset changes nothing
InnerAttempt ==
    /\ pc = "inner"
    /\ \E p \in p_iter :
        /\ cache_key(r_idx, p) \notin already_checked
        /\ \E a \in {attempt(scanners, r_idx, p)} :
            /\ last' = a
            /\ p_iter' = p_iter \ {p}
            /\ IF a.kind = "placed"
               THEN \E s \in {transform(scanners[p], Unwrap(a.found)[1],
                                        Unwrap(a.found)[2])} :
                        /\ scanners' = [scanners EXCEPT ![p] = s]
                        /\ beacons' = beacons \cup Range(s.beacons)
                        /\ pending' = pending \ {p}
                        /\ solved' = solved \cup {p}
                        /\ placed_in_pass' = placed_in_pass + 1
                        /\ pc' = "outer"
                        /\ UNCHANGED already_checked
               ELSE /\ already_checked' =
                          IF a.kind = "memo"
                          THEN already_checked \cup {cache_key(r_idx, p)}
                          ELSE already_checked
                    /\ UNCHANGED <<scanners, beacons, pending, solved,
                                   placed_in_pass, pc>>
    /\ UNCHANGED <<first_call, par_todo, par_done, truth, input, r_iter, r_idx, passes>>

\* the inner for loop is exhausted
InnerDone ==
    /\ pc = "inner"
    /\ p_iter = {}
    /\ pc' = "outer"
    /\ UNCHANGED <<first_call, par_todo, par_done, truth, input, scanners, beacons, solved, pending,
                   already_checked, r_iter, r_idx, p_iter, passes,
                   placed_in_pass, last>>

\* lines 384-387: pending is not empty, the loop runs again
LoopAgain ==
    /\ pc = "check"
    /\ pending # {}
    /\ pc' = "loop"
    /\ UNCHANGED <<first_call, par_todo, par_done, truth, input, scanners, beacons, solved, pending,
                   already_checked, r_iter, r_idx, p_iter, passes,
                   placed_in_pass, last>>

\* the exit test left out: an empty pending set starts another pass
Return_keeps_looping ==
    /\ pc = "check"
    /\ pending = {}
    /\ pc' = "loop"
    /\ UNCHANGED <<first_call, par_todo, par_done, truth, input, scanners, beacons, solved, pending,
                   already_checked, r_iter, r_idx, p_iter, passes,
                   placed_in_pass, last>>

\* lines 384-386: pending is empty, correlate returns
Return ==
    /\ pc = "check"
    /\ pending = {}
    /\ pc' = "done"
    /\ UNCHANGED <<first_call, par_todo, par_done, truth, input, scanners, beacons, solved, pending,
                   already_checked, r_iter, r_idx, p_iter, passes,
                   placed_in_pass, last>>

Next ==
    \/ Start
    \/ PassBegin
    \/ OuterNext
    \/ OuterDone
    \/ InnerSkip
    \/ InnerAttempt
    \/ InnerDone
    \/ LoopAgain
    \/ Return

Spec == Init /\ [][Next]_vars

\* correlate is a sequential loop on one thread: whenever it can step, it does
FairSpec == Spec /\ WF_vars(Next)

\* the worked example: its five scanners, read as they are
ExampleTruth ==
    [i \in 0..4 |->
        [view |-> <<"Ex0", "Ex1", "Ex2", "Ex3", "Ex4">>[i + 1],
         rot |-> 0, trans |-> <<0, 0, 0>>]]

InitExample == InitCorrelate(ExampleTruth)

ExampleSpec == InitExample /\ [][Next]_vars /\ WF_vars(Next)

-----------------------------------------------------------------------------
(* The matcher on its own: a reference (scanner 0) that reads its view     *)
(* under a rotation and a translation, a pending sensor (scanner 1) that   *)
(* reads its view as it is, and one run of the matcher on the pair         *)

\* <<view of the reference, view of the pending sensor>>
MatchPairs == {
    <<"Vl", "Vl">>, <<"Va", "Va">>, <<"Vc", "Vc">>, <<"Ve", "Ve">>,
    <<"Vz", "Vz">>, <<"A3", "A3">>, <<"B3", "B3">>,
    <<"Va", "Vc">>, <<"Vc", "Ve">>, <<"Va", "Vb">>, <<"A3", "B3">>,
    <<"Va", "Vz">>, <<"A1", "B1">>, <<"A6", "B6">>
}

MatchTruths ==
    {(0 :> [view |-> pr[1], rot |-> rot, trans |-> tr]) @@
     (1 :> [view |-> pr[2], rot |-> 0, trans |-> <<0, 0, 0>>])
     : <<pr, rot, tr>> \in MatchPairs \X (0..(NumRotations - 1)) \X Translations}

InitMatch ==
    \E tr \in MatchTruths :
        /\ truth = tr
        /\ input = [i \in DOMAIN tr |-> Pose(ViewOf[tr[i].view], tr[i].rot, tr[i].trans)]
        /\ scanners = MapperNew(input)
        /\ beacons = {}
        /\ solved = {}
        /\ pending = {}
        /\ already_checked = {}
        /\ pc = "match"
        /\ r_iter = {}
        /\ r_idx = 0
        /\ p_iter = {}
        /\ passes = 0
        /\ placed_in_pass = 0
        /\ last = NoAttempt
        /\ par_todo = {}
        /\ par_done = << >>
        /\ first_call = None

\* lines 364-367: par_intersection of the reference with the pending sensor,
\* then find_offset on what it returns
ApplyMatcher ==
    /\ pc = "match"
    /\ last' = attempt(scanners, 0, 1)
    /\ pc' = "matched"
    /\ UNCHANGED <<first_call, par_todo, par_done, truth, input, scanners, beacons, solved, pending,
                   already_checked, r_iter, r_idx, p_iter, passes, placed_in_pass>>

NextMatch == ApplyMatcher

MatchSpec == InitMatch /\ [][NextMatch]_vars

-----------------------------------------------------------------------------
(* correlate as one function of the input, for the run in which both for   *)
(* loops visit the ids of their cloned sets in ascending order             *)

\* the inner for loop over the ids ps of pending.clone(), for reference r
RECURSIVE in_order_inner(_, _, _)
in_order_inner(st, r, ps) ==
    IF ps = {} THEN st
    ELSE LET p    == SetMin(ps)
             rest == ps \ {p}
         IN  IF cache_key(r, p) \in st.already_checked
             THEN in_order_inner(st, r, rest)
             ELSE LET a == attempt(st.scanners, r, p)
                  IN  IF a.kind = "placed"
                      THEN LET s == transform(st.scanners[p], Unwrap(a.found)[1],
                                              Unwrap(a.found)[2])
                           IN  [st EXCEPT !.scanners[p] = s,
                                          !.beacons = @ \cup Range(s.beacons),
                                          !.pending = @ \ {p},
                                          !.solved = @ \cup {p}]
                      ELSE IF a.kind = "memo"
                      THEN in_order_inner(
                               [st EXCEPT !.already_checked = @ \cup {cache_key(r, p)}],
                               r, rest)
                      ELSE in_order_inner(st, r, rest)

\* the outer for loop over the ids rs of solved.clone()
RECURSIVE in_order_outer(_, _)
in_order_outer(st, rs) ==
    IF rs = {} THEN st
    ELSE LET r == SetMin(rs)
         IN  in_order_outer(in_order_inner(st, r, st.pending), rs \ {r})

\* the `loop`, cut off after `fuel` passes
RECURSIVE in_order_loop(_, _)
in_order_loop(st, fuel) ==
    LET st2 == in_order_outer(st, st.solved)
    IN  IF st2.pending = {} \/ fuel <= 1 THEN st2
        ELSE in_order_loop(st2, fuel - 1)

correlate_in_order(inp) ==
    LET scs == MapperNew(inp)
    IN  IF DOMAIN scs = {}
        THEN [scanners |-> scs, beacons |-> {}, solved |-> {}, pending |-> {},
              already_checked |-> {}]
        ELSE in_order_loop(
                 [scanners |-> scs,
                  beacons |-> Range(scs[0].beacons),
                  solved |-> {0},
                  pending |-> 1..(Cardinality(DOMAIN scs) - 1),
                  already_checked |-> {}],
                 MaxPasses)

-----------------------------------------------------------------------------
(* Vocabulary of the properties                                            *)

NumScanners == Cardinality(DOMAIN scanners)

\* the offsets A - rotation_rot(B) over ALL pairs of a correspondence list
OffsetsUnder(rot, inter) ==
    {offset(inter[k][1], rotation(inter[k][2], rot)) : k \in 1..Len(inter)}

\* the orientations that give one and the same offset for every pair
ConsistentRots(inter) ==
    {rot \in 0..(NumRotations - 1) : Cardinality(OffsetsUnder(rot, inter)) = 1}

\* the largest number of distinct landmark coordinates two readings have in
\* common under any orientation of the table and any translation
SharedLandmarks(A, B) ==
    SetMax({Cardinality(Range(A) \cap
                {translate(rotation(x, rot), offset(a, rotation(b, rot)))
                 : x \in Range(B)})
            : <<rot, a, b>> \in (0..(NumRotations - 1)) \X Range(A) \X Range(B)})

\* how many entries of the list bs have a coordinate found in the list as
EntriesIn(bs, as) == Cardinality({k \in 1..Len(bs) : bs[k] \in Range(as)})

\* some (placed, pending) pair on which the matcher succeeds, if any is pending
Connected ==
    pending # {} =>
        \E r \in solved, p \in pending : IsSome(Matcher(scanners[r], scanners[p]))

-----------------------------------------------------------------------------
(* C1: after a complete pass that placed no sensor while sensors are still *)
(* pending, correlate has stopped (with a failure); it is not back at the  *)
(* head of its loop for another pass.                                      *)
C1_NoProgressStops ==
    ~(pc = "loop" /\ passes >= 1 /\ placed_in_pass = 0 /\ pending # {})

(* C2: a pending sensor is never placed from a correspondence list for     *)
(* which more than one orientation gives a consistent offset.              *)
C2_AmbiguityNeverPlaced ==
    last.kind = "placed" => Cardinality(ConsistentRots(Unwrap(last.inter))) <= 1

(* C5: a sensor is never placed on the strength of a pair of sensors that  *)
(* share fewer than THRESHOLD - 1 landmarks.                               *)
C5_NoFalsePositive ==
    last.kind = "placed" =>
        SharedLandmarks(input[last.r], input[last.p]) >= THRESHOLD - 1

(* C6: once a sensor is placed, at least THRESHOLD of its transformed      *)
(* landmarks have the coordinates of landmarks of the reference used.      *)
C6_OverlapCorrect ==
    last.kind = "placed" =>
        EntriesIn(scanners[last.p].beacons, scanners[last.r].beacons) >= THRESHOLD

(* C7: whatever order the pairs were attempted in, a completed correlate   *)
(* leaves the landmark set and the largest_distance that the run visiting  *)
(* the ids in ascending order leaves for the same input.                   *)
C7_OrderIndependent ==
    pc = "done" =>
        LET c == correlate_in_order(input)
        IN  /\ c.pending = {}
            /\ beacons = c.beacons
            /\ largest_distance(scanners) = largest_distance(c.scanners)

(* C9 as stated: for a single sensor the landmark set has as many elements *)
(* as the sensor's list has landmarks.                                     *)
C9_CountIsListLength ==
    (pc = "done" /\ NumScanners = 1) =>
        /\ Cardinality(beacons) = Len(input[0])
        /\ beacons = Range(input[0])
        /\ largest_distance(scanners) = None

(* C9 as amended: for a single sensor correlate makes one pass and returns; *)
(* the landmark set is exactly the set of the sensor's untransformed       *)
(* landmark coordinates, so its size is the number of distinct coordinates *)
(* of the list, and largest_distance is None.                              *)
C9_SingleSensor ==
    NumScanners = 1 =>
        /\ passes <= 1
        /\ pc = "check" => pending = {}
        /\ pc = "done" =>
            /\ beacons = Range(input[0])
            /\ Cardinality(beacons) = Cardinality(Range(input[0]))
            /\ scanners[0].beacons = input[0]
            /\ largest_distance(scanners) = None

C9_Witness ==
    /\ pc = "done"
    /\ NumScanners = 1
    /\ passes = 1
    /\ Cardinality(beacons) < Len(input[0])

(* C10: if in every state with pending sensors some (placed, pending) pair *)
(* matches, then for two or more sensors every pass places a sensor, no    *)
(* more than n - 1 passes are started, and correlate reaches its end with  *)
(* pending empty and every sensor placed.  (A state in which no pair       *)
(* matches never regains one, so the precondition is read off the current  *)
(* state: "always connected implies eventually done" is "eventually not    *)
(* connected or done".)                                                    *)
C10_TerminatesWhenConnected ==
    /\ []((NumScanners >= 2 /\ Connected) =>
            /\ pc = "check" => placed_in_pass >= 1
            /\ passes <= NumScanners - 1)
    /\ <>(\/ ~Connected
          \/ NumScanners < 2
          \/ /\ pc = "done"
             /\ pending = {}
             /\ solved = DOMAIN scanners)

C10_Witness ==
    /\ pc = "done"
    /\ NumScanners = 3
    /\ passes = 2
    /\ solved = DOMAIN scanners
    /\ last.kind = "placed"
    /\ last.r # 0

-----------------------------------------------------------------------------
(* Properties of the matcher on its own (MatchSpec)                        *)

PendView == ViewOf[truth[1].view]

\* the distinct landmark coordinates of A that B's landmarks take under the
\* orientation rot followed by the translation tr
SharedUnder(A, B, rot, tr) ==
    Range(A) \cap {translate(rotation(x, rot), tr) : x \in Range(B)}

\* the transforms of the table under which B shares THRESHOLD landmarks with A
TransformsOnto(A, B) ==
    {rt \in UNION {{<<rot, offset(a, rotation(b, rot))>> : a \in Range(A), b \in Range(B)}
                   : rot \in 0..(NumRotations - 1)}
        : Cardinality(SharedUnder(A, B, rt[1], rt[2])) >= THRESHOLD}

Cross(u, v) ==
    <<u[2] * v[3] - u[3] * v[2], u[3] * v[1] - u[1] * v[3], u[1] * v[2] - u[2] * v[1]>>

\* the first THRESHOLD landmarks of the list are not all on one line
FirstNotCollinear(bs) ==
    \E i, j \in 1..THRESHOLD :
        Cross(offset(bs[i], bs[1]), offset(bs[j], bs[1])) # <<0, 0, 0>>

\* no two landmarks of the list have fingerprints sharing THRESHOLD - 1
\* measurements
DistinctFingerprints(bs) ==
    \A i, j \in 1..Len(bs) :
        i # j => Cardinality(dist_map_of(bs)[i] \cap dist_map_of(bs)[j]) < THRESHOLD - 1

(* C3: when the pending sensor shares at least THRESHOLD landmarks with    *)
(* the reference under the orientation r and the translation t the         *)
(* reference was posed with, the matcher returns exactly (r, t).  Stated   *)
(* for the inputs where (r, t) is the only such transform.                 *)
C3_RecoversTransform ==
    (/\ pc = "matched"
     /\ TransformsOnto(input[0], input[1]) = {<<truth[0].rot, truth[0].trans>>})
        => last.found = Some(<<truth[0].rot, truth[0].trans>>)

-----------------------------------------------------------------------------
(* C8: on the worked example correlate reaches its end, and there the      *)
(* landmark set has exactly 79 elements and largest_distance is Some(3621). *)
C8_WorkedExample ==
    /\ [](pc = "done" =>
            /\ Cardinality(beacons) = 79
            /\ largest_distance(scanners) = Some(3621))
    /\ <>(pc = "done")

C8_Witness ==
    /\ pc = "done"
    /\ NumScanners = 5
    /\ solved = 0..4
    /\ Cardinality(beacons) = 79

-----------------------------------------------------------------------------
(* C11: once correlate has set up its sets, solved and pending are         *)
(* disjoint and together hold every scanner id, in every state; solved     *)
(* only grows and pending only shrinks, so a sensor moves from pending to  *)
(* solved at most once and never back.                                     *)
C11_Partition ==
    /\ [](pc # "start" => /\ solved \cap pending = {}
                          /\ solved \cup pending = DOMAIN scanners)
    /\ [][pc # "start" => /\ solved \subseteq solved'
                          /\ pending' \subseteq pending
                          /\ Cardinality(solved' \ solved) <= 1]_vars

\* a run that moved two sensors and returned
C11_Witness ==
    /\ pc = "done"
    /\ Cardinality(solved) = 3
    /\ pending = {}

-----------------------------------------------------------------------------
(* C12: Scanner::transform runs at most once on a sensor and never on the  *)
(* anchor: the step that applies it finds the sensor's offset unset and    *)
(* leaves it set, the anchor is never changed, and a sensor whose offset   *)
(* is set keeps its offset and its landmark coordinates in every later     *)
(* step.                                                                   *)

\* this step is the one that applies Scanner::transform to scanner i
TransformStep(i) ==
    /\ pc = "inner"
    /\ pc' = "outer"
    /\ p_iter' # p_iter
    /\ last'.p = i

C12_TransformOnce ==
    [][\A i \in DOMAIN scanners :
          /\ TransformStep(i) => /\ i # 0
                                 /\ scanners[i].offset = None
                                 /\ IsSome(scanners'[i].offset)
          /\ ~TransformStep(i) => scanners'[i] = scanners[i]
          /\ IsSome(scanners[i].offset) => scanners'[i] = scanners[i]
          /\ scanners'[0] = scanners[0]]_vars

\* two sensors have been transformed, each with a rotation that moved it
C12_Witness ==
    /\ pc = "done"
    /\ \A i \in DOMAIN scanners \ {0} :
           /\ IsSome(scanners[i].offset)
           /\ scanners[i].beacons # input[i]
    /\ Cardinality(DOMAIN scanners) = 3
    /\ scanners[0].offset = None

-----------------------------------------------------------------------------
(* C13: a sensor is transformed and placed only in a step whose matcher    *)
(* run found at least THRESHOLD correspondences between the reference and  *)
(* the pending sensor; a pair with fewer correspondences never changes a   *)
(* scanner or the solved set.                                              *)

\* the landmarks of ref whose fingerprint shares THRESHOLD - 1 measurements
\* with the fingerprint of some landmark of pend
Correspondences(ref, pend) ==
    {i \in 1..Len(ref.dist_map) :
        \E j \in 1..Len(pend.dist_map) :
            Cardinality(ref.dist_map[i] \cap pend.dist_map[j]) >= THRESHOLD - 1}

C13_ThresholdBeforeTransform ==
    [][(pc # "start" /\ (scanners' # scanners \/ solved' # solved)) =>
          /\ TransformStep(last'.p)
          /\ last'.r = r_idx
          /\ Cardinality(Correspondences(scanners[r_idx], scanners[last'.p]))
                 >= THRESHOLD]_vars

\* one pair was turned down for want of correspondences, another was placed
C13_Witness ==
    /\ last.kind = "placed"
    /\ Len(Unwrap(last.inter)) >= THRESHOLD
    /\ \E k \in already_checked :
           Cardinality(Correspondences(scanners[k[1]], scanners[k[2]])) < THRESHOLD

-----------------------------------------------------------------------------
(* C14: after every matcher attempt that placed nothing, whether the       *)
(* search found fewer than THRESHOLD correspondences or no orientation     *)
(* gave a consistent offset, the unordered pair is in already_checked.     *)
C14_FailureMemoized ==
    last.kind \in {"memo", "no_offset"} =>
        cache_key(last.r, last.p) \in already_checked

-----------------------------------------------------------------------------
(* C15: when the matcher accepts an orientation, the offset                *)
(* A - rotation(B) is one and the same for every pair of the               *)
(* correspondence list handed to find_offset, not only for a prefix of it. *)
C15_AllPairsAgree ==
    last.kind = "placed" =>
        Cardinality(OffsetsUnder(Unwrap(last.found)[1], Unwrap(last.inter))) = 1

-----------------------------------------------------------------------------
(* C16: largest_distance returns the largest Manhattan distance between    *)
(* the origins of two sensors in the global frame, the origin of a sensor  *)
(* being where the correlation put it: (0,0,0) for the anchor and for a    *)
(* sensor that was never transformed; it returns None exactly when there   *)
(* are fewer than two sensors.                                              *)

\* where the local origin of scanner i lies in correlate's frame: (0,0,0)
\* while its landmark list is the one it was read with, else the
\* translations t such that, for some orientation, the scanner's current
\* landmark list is its input list rotated and then moved by t
AssignedOrigins(i) ==
    IF scanners[i].beacons = input[i] THEN {<<0, 0, 0>>}
    ELSE {t \in {offset(scanners[i].beacons[1], rotation(input[i][1], rot))
                 : rot \in 0..(NumRotations - 1)} :
             \E rot \in 0..(NumRotations - 1) :
                 \A k \in 1..Len(input[i]) :
                     scanners[i].beacons[k] = translate(rotation(input[i][k], rot), t)}

OriginPairs == {c \in (DOMAIN scanners) \X (DOMAIN scanners) : c[1] < c[2]}

OriginDistances ==
    {Abs(c.a[1] - c.b[1]) + Abs(c.a[2] - c.b[2]) + Abs(c.a[3] - c.b[3])
     : c \in UNION {[a : AssignedOrigins(pr[1]), b : AssignedOrigins(pr[2])]
                    : pr \in OriginPairs}}

C16_LargestDistance ==
    /\ \A i \in DOMAIN scanners : Cardinality(AssignedOrigins(i)) = 1
    /\ NumScanners >= 1 => AssignedOrigins(0) = {<<0, 0, 0>>}
    /\ IsSome(largest_distance(scanners)) <=> NumScanners >= 2
    /\ NumScanners >= 2 =>
           /\ Unwrap(largest_distance(scanners)) \in OriginDistances
           /\ \A d \in OriginDistances : d <= Unwrap(largest_distance(scanners))

\* a completed correlation of three sensors, two of them away from the anchor
\* and from each other
C16_Witness ==
    /\ pc = "done"
    /\ NumScanners = 3
    /\ Cardinality(UNION {AssignedOrigins(i) : i \in DOMAIN scanners}) = 3
    /\ Unwrap(largest_distance(scanners)) > 0

-----------------------------------------------------------------------------
(* Scanner::par_intersection step by step: one lookup per landmark of the  *)
(* reference, completing in any order, then the collect into a Vec, which  *)
(* puts the results in the order of their index                            *)

\* <<view of the reference, view of the other sensor>>
ParPairs == {<<"A3", "B3">>, <<"Vl", "Vl">>, <<"A1", "B1">>, <<"Va", "Vb">>}

ParTruths ==
    {(0 :> [view |-> pr[1], rot |-> 0, trans |-> <<0, 0, 0>>]) @@
     (1 :> [view |-> pr[2], rot |-> 17, trans |-> tr])
     : <<pr, tr>> \in ParPairs \X Translations}

InitPar ==
    \E tr \in ParTruths :
        /\ truth = tr
        /\ input = [i \in DOMAIN tr |-> Pose(ViewOf[tr[i].view], tr[i].rot, tr[i].trans)]
        /\ scanners = MapperNew(input)
        /\ beacons = {}
        /\ solved = {0}
        /\ pending = {1}
        /\ already_checked = {}
        /\ pc = "fan_out"
        /\ r_iter = {}
        /\ r_idx = 0
        /\ p_iter = {}
        /\ passes = 0
        /\ placed_in_pass = 0
        /\ last = NoAttempt
        /\ par_todo = 1..Len(scanners[0].dist_map)
        /\ par_done = << >>
        /\ first_call = None

\* the closure of filter_map for the landmark at position idx of self
lookup(self, other, idx) ==
    TheOne({IF IsSome(found)
            THEN Some(<<self.beacons[idx], other.beacons[Unwrap(found)]>>)
            ELSE None
            : found \in {find_by_distances(other, self.dist_map[idx])}})

\* a worker completes the lookup of one landmark of the reference
WorkerLookup ==
    /\ pc = "fan_out"
    /\ \E idx \in par_todo :
        /\ par_todo' = par_todo \ {idx}
        /\ par_done' = Append(par_done,
                              [idx |-> idx, hit |-> lookup(scanners[0], scanners[1], idx)])
    /\ UNCHANGED <<first_call, truth, input, scanners, beacons, solved, pending,
                   already_checked, pc, r_iter, r_idx, p_iter, passes,
                   placed_in_pass, last>>

\* the hits of the completed lookups, taken in the order of their index
RECURSIVE collect_by_index(_, _)
collect_by_index(done, idx) ==
    IF idx > Len(done) THEN << >>
    ELSE LET e == TheOne({d \in Range(done) : d.idx = idx})
         IN  (IF IsSome(e.hit) THEN e.hit ELSE << >>)
             \o collect_by_index(done, idx + 1)

\* the hits of the completed lookups, taken as the lookups completed
RECURSIVE collect_as_completed(_, _)
collect_as_completed(done, k) ==
    IF k > Len(done) THEN << >>
    ELSE (IF IsSome(done[k].hit) THEN done[k].hit ELSE << >>)
         \o collect_as_completed(done, k + 1)

\* the collect with the results left in the order the workers finished
Collect_in_completion_order ==
    /\ pc = "fan_out"
    /\ par_todo = {}
    /\ \E res \in {collect_as_completed(par_done, 1)} :
           last' = [r |-> 0, p |-> 1, kind |-> "none",
                    inter |-> IF Len(res) < THRESHOLD THEN None ELSE Some(res),
                    found |-> None]
    /\ pc' = "collected"
    /\ UNCHANGED <<first_call, par_todo, par_done, truth, input, scanners, beacons, solved,
                   pending, already_checked, r_iter, r_idx, p_iter, passes,
                   placed_in_pass>>

\* lines 253-268: all lookups are done; collect, then the THRESHOLD test
Collect ==
    /\ pc = "fan_out"
    /\ par_todo = {}
    /\ \E res \in {collect_by_index(par_done, 1)} :
           last' = [r |-> 0, p |-> 1, kind |-> "none",
                    inter |-> IF Len(res) < THRESHOLD THEN None ELSE Some(res),
                    found |-> None]
    /\ pc' = "collected"
    /\ UNCHANGED <<first_call, par_todo, par_done, truth, input, scanners, beacons, solved,
                   pending, already_checked, r_iter, r_idx, p_iter, passes,
                   placed_in_pass>>

NextPar ==
    \/ WorkerLookup
    \/ Collect

ParSpec == InitPar /\ [][NextPar]_vars

-----------------------------------------------------------------------------
(* C17: whatever the order in which the lookups of par_intersection        *)
(* complete, the list it returns is the one a sequential scan of the       *)
(* reference's landmarks from first to last produces, in the same order;   *)
(* a lookup adds its own result and changes nothing else: no scanner, not  *)
(* the landmark set, not the sets of the correlator, no other result.      *)

\* the pairs found by visiting the landmarks of self one after the other
RECURSIVE sequential_pairs(_, _, _)
sequential_pairs(self, other, idx) ==
    IF idx > Len(self.dist_map) THEN << >>
    ELSE LET found == find_by_distances(other, self.dist_map[idx])
         IN  (IF IsSome(found)
              THEN << <<self.beacons[idx], other.beacons[Unwrap(found)]>> >>
              ELSE << >>)
             \o sequential_pairs(self, other, idx + 1)

sequential_intersection(self, other) ==
    LET res == sequential_pairs(self, other, 1)
    IN  IF Len(res) < THRESHOLD THEN None ELSE Some(res)

C17_OrderOfCompletionIrrelevant ==
    /\ [](pc = "collected" =>
             last.inter = sequential_intersection(scanners[0], scanners[1]))
    /\ [][/\ UNCHANGED <<scanners, beacons, solved, pending, already_checked>>
          /\ pc = "fan_out" /\ pc' = "fan_out" =>
                /\ Len(par_done') = Len(par_done) + 1
                /\ SubSeq(par_done', 1, Len(par_done)) = par_done]_vars

\* the lookups completed in an order that is not the order of the indices,
\* some found a partner and some did not, and a list was returned
C17_Witness ==
    /\ pc = "collected"
    /\ IsSome(last.inter)
    /\ \E k \in 1..(Len(par_done) - 1) : par_done[k].idx > par_done[k + 1].idx
    /\ \E k \in 1..Len(par_done) : par_done[k].hit = None

-----------------------------------------------------------------------------
(* C18: a run of the matcher changes no scanner, not the landmark set and  *)
(* not the solved and pending sets: what changes in a step that places a   *)
(* sensor is the caller's transform of the pending sensor, computed from   *)
(* the state before the step; in a step whose matcher run found no match   *)
(* nothing changes but, at most, the memo set, which gains the pair, and   *)
(* correlate goes on with the next candidate of the inner loop.            *)

\* this step ran the matcher on the pair (r_idx, p)
MatcherStep(p) ==
    /\ pc = "inner"
    /\ p \in p_iter
    /\ p \notin p_iter'
    /\ cache_key(r_idx, p) \notin already_checked

C18_MatcherIsPure ==
    [][\A p \in DOMAIN scanners :
          MatcherStep(p) =>
              /\ \A i \in DOMAIN scanners \ {p} : scanners'[i] = scanners[i]
              /\ scanners'[p].dist_map = scanners[p].dist_map
              /\ IF IsSome(Matcher(scanners[r_idx], scanners[p]))
                 THEN /\ scanners'[p].beacons =
                            [k \in 1..Len(scanners[p].beacons) |->
                                translate(rotation(scanners[p].beacons[k],
                                     Unwrap(Matcher(scanners[r_idx], scanners[p]))[1]),
                                     Unwrap(Matcher(scanners[r_idx], scanners[p]))[2])]
                      /\ beacons' = beacons \cup Range(scanners'[p].beacons)
                 ELSE /\ UNCHANGED <<scanners, beacons, solved, pending>>
                      /\ already_checked \subseteq already_checked'
                      /\ already_checked' \subseteq
                             already_checked \cup {cache_key(r_idx, p)}
                      /\ pc' = "inner"
                      /\ r_idx' = r_idx]_vars

\* both ways of finding no match have happened in one run: a pair with too
\* few correspondences is in the memo set, and the last matcher run had
\* enough correspondences but no orientation with a consistent offset
C18_Witness ==
    /\ last.kind = "no_offset"
    /\ already_checked # {}
    /\ pc = "inner"

-----------------------------------------------------------------------------
(* C19: when correlate, given at least one sensor, has finished its setup  *)
(* and stands before its first pass, solved is {0}, pending holds the ids  *)
(* 1 to n-1, the memo set is empty, no sensor has been transformed or      *)
(* given an offset, and the landmark set holds the landmarks of sensor 0   *)
(* as they were read and nothing else.                                     *)
C19_InitialState ==
    (pc = "loop" /\ passes = 0) =>
        /\ NumScanners >= 1
        /\ solved = {0}
        /\ pending = {i \in DOMAIN scanners : i >= 1}
        /\ already_checked = {}
        /\ \A i \in DOMAIN scanners : /\ scanners[i].beacons = input[i]
                                       /\ scanners[i].offset = None
        /\ beacons = {input[0][k] : k \in 1..Len(input[0])}

\* the setup is done for three sensors, and the other two sensors have
\* landmarks the set does not hold
C19_Witness ==
    /\ pc = "loop"
    /\ passes = 0
    /\ NumScanners = 3
    /\ \A i \in {1, 2} : \E k \in 1..Len(input[i]) : input[i][k] \notin beacons

-----------------------------------------------------------------------------
(* C20: after the step that places pending sensor p on a match             *)
(* (rot, offset), every landmark of p is its input landmark rotated by rot *)
(* and then moved by offset, p is in solved and not in pending, all its    *)
(* transformed landmarks are in the landmark set, and the sensor carries   *)
(* both its global offset and the chosen orientation rot.                  *)

\* the fields of struct Scanner (lines 153-164)
ScannerFields == {"index", "beacons", "dist_map", "offset"}

\* what the placement step does according to the source
PlacedAsTransformed ==
    last.kind = "placed" =>
        /\ scanners[last.p].beacons =
               [k \in 1..Len(input[last.p]) |->
                   translate(rotation(input[last.p][k], Unwrap(last.found)[1]),
                             Unwrap(last.found)[2])]
        /\ scanners[last.p].offset = Some(Unwrap(last.found)[2])
        /\ last.p \in solved
        /\ last.p \notin pending
        /\ Range(scanners[last.p].beacons) \subseteq beacons

C20_PlacementRecordsOrientation ==
    /\ PlacedAsTransformed
    /\ last.kind = "placed" =>
           \E f \in DOMAIN scanners[last.p] \ ScannerFields :
               scanners[last.p][f] = Unwrap(last.found)[1]

-----------------------------------------------------------------------------
(* correlate called with a landmark set that may already hold something    *)

\* what the caller's set may hold at the call; the coordinate is that of no
\* landmark of any scenario
CallerSets == {{}, {<<100, 100, 100>>}}

InitCaller ==
    \E tr \in Truths, b \in CallerSets :
        /\ truth = tr
        /\ input = [i \in DOMAIN tr |-> Pose(ViewOf[tr[i].view], tr[i].rot, tr[i].trans)]
        /\ scanners = MapperNew(input)
        /\ beacons = b
        /\ solved = {}
        /\ pending = {}
        /\ already_checked = {}
        /\ pc = "start"
        /\ r_iter = {}
        /\ r_idx = 0
        /\ p_iter = {}
        /\ passes = 0
        /\ placed_in_pass = 0
        /\ last = NoAttempt
        /\ par_todo = {}
        /\ par_done = << >>
        /\ first_call = None

CallerSpec == InitCaller /\ [][Next]_vars

-----------------------------------------------------------------------------
(* C21: from the end of the setup on, the landmark set is what the caller  *)
(* handed in together with the current landmark coordinates of the solved  *)
(* sensors: every step adds exactly the landmarks of the sensors it        *)
(* places and removes nothing, so a coordinate of a pending sensor is in   *)
(* the set only if the caller supplied it or a solved sensor has it.       *)

PlacedLandmarks == UNION {Range(scanners[i].beacons) : i \in solved}

C21_SetIsPlacedLandmarks ==
    /\ [](pc # "start" => /\ PlacedLandmarks \subseteq beacons
                          /\ (beacons \ PlacedLandmarks) \in CallerSets
                          /\ \A p \in pending :
                                 Range(input[p]) \cap beacons \subseteq
                                     PlacedLandmarks \cup UNION CallerSets)
    /\ [][/\ beacons \subseteq beacons'
          /\ beacons' = beacons \cup
                 UNION {Range(scanners'[i].beacons) : i \in solved' \ solved}]_vars

\* the caller's set was not empty, two sensors have been placed, one of them
\* moved by its transform
C21_Witness ==
    /\ pc = "done"
    /\ NumScanners = 3
    /\ <<100, 100, 100>> \in beacons
    /\ \E i \in solved : scanners[i].beacons # input[i]

-----------------------------------------------------------------------------
(* C22: in a scanner built from n landmarks every fingerprint has exactly  *)
(* n - 1 measurements, a distance that occurs v times among the distances  *)
(* of a landmark is stored as the instances 0 to v-1, and the number of    *)
(* measurements two fingerprints have in common is the size of the         *)
(* intersection of the two multisets of distances: the sum, over the       *)
(* distances, of the smaller of the two numbers of occurrences.            *)

\* how often the squared distance d occurs from landmark k of the list bs to
\* the other landmarks of bs
Occurrences(bs, k, d) ==
    Cardinality({j \in (1..Len(bs)) \ {k} : dist_squared(bs[k], bs[j]) = d})

DistancesOf(bs, k) == {dist_squared(bs[k], bs[j]) : j \in (1..Len(bs)) \ {k}}

Min2(a, b) == IF a < b THEN a ELSE b

RECURSIVE SumOf(_, _)
SumOf(f, S) ==
    IF S = {} THEN 0
    ELSE LET x == CHOOSE y \in S : TRUE IN f[x] + SumOf(f, S \ {x})

MultisetIntersectionSize(as, k, bs, l) ==
    LET ds == DistancesOf(as, k) \cap DistancesOf(bs, l)
    IN  SumOf([d \in ds |-> Min2(Occurrences(as, k, d), Occurrences(bs, l, d))], ds)

\* <<scanner id, position of a landmark>> for every landmark of the state
AllLandmarks ==
    UNION {{<<i, k>> : k \in 1..Len(input[i])} : i \in DOMAIN scanners}

C22_CountedFingerprints ==
    /\ \A i \in DOMAIN scanners :
           /\ Len(scanners[i].dist_map) = Len(input[i])
           /\ \A k \in 1..Len(input[i]) :
                  /\ Cardinality(scanners[i].dist_map[k]) = Len(input[i]) - 1
                  /\ scanners[i].dist_map[k] =
                         UNION {{[dist |-> d, instance |-> n]
                                 : n \in 0..(Occurrences(input[i], k, d) - 1)}
                                : d \in DistancesOf(input[i], k)}
    /\ \A a \in AllLandmarks, b \in AllLandmarks :
           Cardinality(scanners[a[1]].dist_map[a[2]] \cap scanners[b[1]].dist_map[b[2]])
               = MultisetIntersectionSize(input[a[1]], a[2], input[b[1]], b[2])

\* the matcher has compared fingerprints, two of which share a distance that
\* occurs twice in one of them and once in the other
C22_Witness ==
    /\ pc = "matched"
    /\ \E a \in AllLandmarks, b \in AllLandmarks :
          \E d \in DistancesOf(input[a[1]], a[2]) \cap DistancesOf(input[b[1]], b[2]) :
              /\ Occurrences(input[a[1]], a[2], d) = 2
              /\ Occurrences(input[b[1]], b[2], d) = 1
              /\ [dist |-> d, instance |-> 1] \in scanners[a[1]].dist_map[a[2]]

-----------------------------------------------------------------------------
(* Scanner::transform on its own: a scanner built from a view, and one     *)
(* call of transform with any orientation of the table and a translation   *)

TransformViews == {"Va", "Vc", "Vl", "Vz", "A3", "B3", "A6", "B5", "A1", "B1"}

InitTransform ==
    \E v \in TransformViews, rot \in 0..(NumRotations - 1), tr \in Translations :
        /\ truth = (0 :> [view |-> v, rot |-> 0, trans |-> <<0, 0, 0>>])
        /\ input = (0 :> ViewOf[v])
        /\ scanners = MapperNew(input)
        /\ beacons = {}
        /\ solved = {}
        /\ pending = {0}
        /\ already_checked = {}
        /\ pc = "fresh"
        /\ r_iter = {}
        /\ r_idx = 0
        /\ p_iter = {}
        /\ passes = 0
        /\ placed_in_pass = 0
        /\ last = [r |-> 0, p |-> 0, kind |-> "placed", inter |-> None,
                   found |-> Some(<<rot, tr>>)]
        /\ par_todo = {}
        /\ par_done = << >>
        /\ first_call = None

\* line 370: s.transform(rot, &offset.coords)
ApplyTransform ==
    /\ pc = "fresh"
    /\ scanners' = [scanners EXCEPT ![0] =
                        transform(scanners[0], Unwrap(last.found)[1], Unwrap(last.found)[2])]
    /\ pc' = "transformed"
    /\ UNCHANGED <<first_call, par_todo, par_done, truth, input, beacons, solved, pending,
                   already_checked, r_iter, r_idx, p_iter, passes, placed_in_pass,
                   last>>

NextTransform == ApplyTransform

TransformSpec == InitTransform /\ [][NextTransform]_vars

-----------------------------------------------------------------------------
(* C23: for every orientation of the table and every translation, a        *)
(* transformed scanner has its landmarks in the order it had them, the     *)
(* squared distance of any two of its landmarks is what it was before the  *)
(* transform, its dist_map is the one it was built with, and that dist_map *)
(* is the one Scanner::new builds from the transformed landmarks.          *)
C23_FingerprintsInvariant ==
    pc = "transformed" =>
        /\ Len(scanners[0].beacons) = Len(input[0])
        /\ \A k \in 1..Len(input[0]) :
               scanners[0].beacons[k] =
                   translate(rotation(input[0][k], Unwrap(last.found)[1]),
                             Unwrap(last.found)[2])
        /\ \A j \in 1..Len(input[0]), k \in 1..Len(input[0]) :
               dist_squared(scanners[0].beacons[j], scanners[0].beacons[k]) =
                   dist_squared(input[0][j], input[0][k])
        /\ scanners[0].dist_map = ScannerNew(0, input[0]).dist_map
        /\ scanners[0].dist_map = ScannerNew(0, scanners[0].beacons).dist_map

\* a transform that moved every landmark of a scanner with seven landmarks
C23_Witness ==
    /\ pc = "transformed"
    /\ Len(input[0]) = 7
    /\ Unwrap(last.found)[1] = 13
    /\ \A k \in 1..Len(input[0]) : scanners[0].beacons[k] # input[0][k]

-----------------------------------------------------------------------------
(* C24: the table has 24 entries; each is a signed permutation of the      *)
(* axes with determinant +1; the entries are pairwise distinct as maps on  *)
(* points; entry 0 is the identity; the composition of any two entries is  *)
(* an entry and every entry has an inverse in the table.  In particular    *)
(* the orientation a scanner was transformed with can be undone by an      *)
(* entry of the table.                                                     *)

RotIndices == 0..(NumRotations - 1)

\* the images of the three unit vectors under entry i: the columns of its matrix
Columns(i) == <<rotation(<<1, 0, 0>>, i), rotation(<<0, 1, 0>>, i),
                rotation(<<0, 0, 1>>, i)>>

Determinant(m) ==
      m[1][1] * (m[2][2] * m[3][3] - m[3][2] * m[2][3])
    - m[2][1] * (m[1][2] * m[3][3] - m[3][2] * m[1][3])
    + m[3][1] * (m[1][2] * m[2][3] - m[2][2] * m[1][3])

IsSignedPermutation(i) ==
    /\ Range(ROTATIONS[i + 1][2]) = {0, 1, 2}
    /\ Range(ROTATIONS[i + 1][1]) \subseteq {-1, 1}

\* the points the maps are compared on: the unit vectors and a point whose
\* coordinates differ in size
ProbePoints == {<<1, 0, 0>>, <<0, 1, 0>>, <<0, 0, 1>>, <<1, 2, 3>>}

SameMap(f, k) == \A x \in ProbePoints : f[x] = rotation(x, k)

Composed(i, j) == [x \in ProbePoints |-> rotation(rotation(x, j), i)]

C24_RotationGroup ==
    /\ NumRotations = 24
    /\ \A i \in RotIndices : IsSignedPermutation(i) /\ Determinant(Columns(i)) = 1
    /\ \A i \in RotIndices, j \in RotIndices : i # j => Columns(i) # Columns(j)
    /\ \A x \in ProbePoints : rotation(x, 0) = x
    /\ \A i \in RotIndices, j \in RotIndices :
           \E k \in RotIndices : SameMap(Composed(i, j), k)
    /\ \A i \in RotIndices :
           \E k \in RotIndices : SameMap(Composed(k, i), 0) /\ SameMap(Composed(i, k), 0)
    /\ pc = "transformed" =>
           \E k \in RotIndices :
               \A n \in 1..Len(input[0]) :
                   rotation(offset(scanners[0].beacons[n], Unwrap(last.found)[2]), k)
                       = input[0][n]

\* a scanner transformed with an orientation that is not its own inverse
C24_Witness ==
    /\ pc = "transformed"
    /\ Unwrap(last.found)[1] = 5
    /\ ~SameMap(Composed(5, 5), 0)
    /\ Len(input[0]) = 7

-----------------------------------------------------------------------------
(* Scanner::intersection, the sequential search with early exits, one trip *)
(* through its loop at a time: self is scanner 0, other is scanner 1.      *)
(* par_todo holds the positions of self not yet examined, par_done the     *)
(* lookups made so far; `candidates` are the hits among them and `seen`    *)
(* the positions found in other.                                           *)

SeqPairs == {<<"A3", "B3">>, <<"Va", "Vb">>, <<"Va", "Vc">>, <<"A1", "B1">>,
             <<"Va", "Vz">>, <<"A5", "B5">>, <<"A6", "B6">>, <<"A7", "B7">>,
             <<"V0", "Va">>, <<"B3", "A3">>}

SeqTruths ==
    {(0 :> [view |-> pr[1], rot |-> 0, trans |-> <<0, 0, 0>>]) @@
     (1 :> [view |-> pr[2], rot |-> rot, trans |-> tr])
     : <<pr, rot, tr>> \in SeqPairs \X PoseRots \X Translations}

InitSeq ==
    \E tr \in SeqTruths :
        /\ truth = tr
        /\ input = [i \in DOMAIN tr |-> Pose(ViewOf[tr[i].view], tr[i].rot, tr[i].trans)]
        /\ scanners = MapperNew(input)
        /\ beacons = {}
        /\ solved = {0}
        /\ pending = {1}
        /\ already_checked = {}
        /\ pc = "seq_loop"
        /\ r_iter = {}
        /\ r_idx = 0
        /\ p_iter = {}
        /\ passes = 0
        /\ placed_in_pass = 0
        /\ last = NoAttempt
        /\ par_todo = 1..Len(scanners[0].dist_map)
        /\ par_done = << >>
        /\ first_call = None

\* the loop body with the pruning test off by one
SeqStep_prunes_one_early ==
    /\ pc = "seq_loop"
    /\ par_todo # {}
    /\ \E idx \in {SetMin(par_todo)} :
       \E found \in {find_by_distances(scanners[1], scanners[0].dist_map[idx])} :
       \E entry \in {[idx |-> idx, found |-> found,
                       hit |-> IF IsSome(found)
                               THEN Some(<<scanners[0].beacons[idx],
                                           scanners[1].beacons[Unwrap(found)]>>)
                               ELSE None]} :
       \E candidates \in {collect_as_completed(Append(par_done, entry), 1)} :
           /\ par_todo' = par_todo \ {idx}
           /\ par_done' = Append(par_done, entry)
           /\ IF IsSome(found) /\ found \in {par_done[k].found : k \in 1..Len(par_done)}
              THEN pc' = "panicked" /\ UNCHANGED last
              ELSE IF Len(candidates) >= THRESHOLD
              THEN /\ pc' = "seq_done"
                   /\ last' = [last EXCEPT !.inter = Some(candidates)]
              ELSE IF Len(candidates) + (Len(scanners[0].beacons) - idx) <= THRESHOLD
              THEN /\ pc' = "seq_done"
                   /\ last' = [last EXCEPT !.inter = None]
              ELSE UNCHANGED <<pc, last>>
    /\ UNCHANGED <<first_call, truth, input, scanners, beacons, solved, pending,
                   already_checked, r_iter, r_idx, p_iter, passes, placed_in_pass>>

\* lines 224-246: one trip through the loop of intersection
SeqStep ==
    /\ pc = "seq_loop"
    /\ par_todo # {}
    /\ \E idx \in {SetMin(par_todo)} :
       \E found \in {find_by_distances(scanners[1], scanners[0].dist_map[idx])} :
       \E entry \in {[idx |-> idx, found |-> found,
                       hit |-> IF IsSome(found)
                               THEN Some(<<scanners[0].beacons[idx],
                                           scanners[1].beacons[Unwrap(found)]>>)
                               ELSE None]} :
       \E candidates \in {collect_as_completed(Append(par_done, entry), 1)} :
           /\ par_todo' = par_todo \ {idx}
           /\ par_done' = Append(par_done, entry)
           /\ IF IsSome(found) /\ found \in {par_done[k].found : k \in 1..Len(par_done)}
              THEN pc' = "panicked" /\ UNCHANGED last
              ELSE IF Len(candidates) >= THRESHOLD
              THEN /\ pc' = "seq_done"
                   /\ last' = [last EXCEPT !.inter = Some(candidates)]
              ELSE IF Len(candidates) + (Len(scanners[0].beacons) - idx) < THRESHOLD
              THEN /\ pc' = "seq_done"
                   /\ last' = [last EXCEPT !.inter = None]
              ELSE UNCHANGED <<pc, last>>
    /\ UNCHANGED <<first_call, truth, input, scanners, beacons, solved, pending,
                   already_checked, r_iter, r_idx, p_iter, passes, placed_in_pass>>

\* line 249: the loop ran out of landmarks
SeqEnd ==
    /\ pc = "seq_loop"
    /\ par_todo = {}
    /\ pc' = "seq_done"
    /\ last' = [last EXCEPT !.inter = None]
    /\ UNCHANGED <<first_call, par_todo, par_done, truth, input, scanners, beacons, solved,
                   pending, already_checked, r_iter, r_idx, p_iter, passes,
                   placed_in_pass>>

NextSeq ==
    \/ SeqStep
    \/ SeqEnd

SeqSpec == InitSeq /\ [][NextSeq]_vars

-----------------------------------------------------------------------------
(* C25: the sequential intersection goes on after a lookup only while the  *)
(* correspondences found and the landmarks not yet examined can still add  *)
(* up to THRESHOLD; when it returns without a panic it returns a list      *)
(* exactly when par_intersection returns one for the same pair, and its    *)
(* list is the first THRESHOLD entries of par_intersection's list.         *)

SeqCandidates == collect_as_completed(par_done, 1)

C25_PruningKeepsOutcome ==
    /\ (pc = "seq_loop" /\ Len(par_done) >= 1) =>
           /\ Len(SeqCandidates) + Cardinality(par_todo) >= THRESHOLD
           /\ Len(SeqCandidates) < THRESHOLD
    /\ pc = "seq_done" =>
           /\ IsSome(last.inter) <=> IsSome(par_intersection(scanners[0], scanners[1]))
           /\ IsSome(last.inter) =>
                  Unwrap(last.inter) =
                      SubSeq(Unwrap(par_intersection(scanners[0], scanners[1])),
                             1, THRESHOLD)
           /\ (~IsSome(last.inter) /\ Len(par_done) >= 1) =>
                  Len(SeqCandidates) + Cardinality(par_todo) < THRESHOLD

\* the sequential search stopped at its sixth hit with a landmark left
\* unexamined, where par_intersection returns seven pairs
C25_Witness ==
    /\ pc = "seq_done"
    /\ IsSome(last.inter)
    /\ par_todo # {}
    /\ Len(Unwrap(par_intersection(scanners[0], scanners[1]))) > THRESHOLD

-----------------------------------------------------------------------------
(* C26: every pass takes all sensors solved so far as its references, the  *)
(* ones placed in earlier passes included; a pair of a solved and a        *)
(* pending sensor that is not memoized is in the end attempted by the      *)
(* matcher, unless the pending sensor is placed or the pair memoized       *)
(* first; and correlate does not return while a sensor is pending.         *)

\* the ids a scanner can have
ScannerIds == 0..(MaxScanners - 1)

\* the pair (r, p) is one the matcher has yet to be run on
Untried(r, p) ==
    /\ r \in solved
    /\ p \in pending
    /\ cache_key(r, p) \notin already_checked

\* the most recent matcher run was on the pair (r, p)
Attempted(r, p) ==
    /\ last.kind # "none"
    /\ last.r = r
    /\ last.p = p

C26_RescanAfterMerge ==
    /\ [][(pc = "loop" /\ pc' = "outer") => r_iter' = solved]_vars
    /\ [](pc = "done" => pending = {})
    /\ \A r \in ScannerIds, p \in ScannerIds :
           Untried(r, p) ~> (Attempted(r, p) \/ ~Untried(r, p))

\* in a second or later pass, a sensor placed earlier served as the
\* reference through which another sensor was placed
C26_Witness ==
    /\ passes >= 2
    /\ last.kind = "placed"
    /\ last.r # 0

-----------------------------------------------------------------------------
(* C27: a memoized pair stays a pair without a match: whenever a solved    *)
(* and a pending sensor form a memoized pair, the matcher run on them in   *)
(* the current state reports no match, so a skipped pair is never one that *)
(* could be placed; and a correspondence search that fails on two sensors  *)
(* fails on them after any later step as well, the steps that rotate and   *)
(* translate one of the two included.                                      *)

NoCorrespondence(scs, a, b) == par_intersection(scs[a], scs[b]) = None

C27_MemoIsSound ==
    /\ [](\A r \in solved, p \in pending :
             cache_key(r, p) \in already_checked =>
                 Matcher(scanners[r], scanners[p]) = None)
    /\ [][scanners' # scanners =>
             \A a \in DOMAIN scanners, b \in DOMAIN scanners :
                 NoCorrespondence(scanners, a, b) => NoCorrespondence(scanners', a, b)]_vars

\* a pair memoized with a reference that was itself rotated by its
\* placement, its pending sensor still pending two passes later
C27_Witness ==
    /\ passes >= 3
    /\ \E r \in solved \ {0}, p \in pending :
           /\ cache_key(r, p) \in already_checked
           /\ scanners[r].beacons # input[r]
           /\ truth[r].rot # 0

-----------------------------------------------------------------------------
(* Parsing: Beacon::from_str, Scanner::try_from and Mapper::try_from.      *)
(* A piece of text that is split off a line is a token: either the text of *)
(* an integer, with its value, or some other text.  A line is given by     *)
(* what split_whitespace and what split(',') make of it.                   *)

Num(n) == [int |-> TRUE, v |-> n]
Txt == [int |-> FALSE, v |-> 0]

\* a header line such as "--- scanner 0 ---": no comma in it
HeaderLine(toks) == [ws |-> toks, commas |-> <<Txt>>]
\* a line such as "1,2,3": no white space in it
CoordLine(comps) == [ws |-> <<Txt>>, commas |-> comps]
\* the empty string
EmptyLine == [ws |-> << >>, commas |-> <<Txt>>]

GoodHeader == HeaderLine(<<Txt, Txt, Num(0), Txt>>)

\* the blocks the documents are made of
ParseBlocks == {
    <<GoodHeader, CoordLine(<<Num(1), Num(2), Num(3)>>),
                  CoordLine(<<Num(-4), Num(5), Num(6)>>)>>,
    <<HeaderLine(<<Txt, Txt, Num(1), Txt, Txt>>), CoordLine(<<Num(7), Num(-8), Num(9)>>)>>,
    <<GoodHeader>>,
    <<HeaderLine(<<Txt, Txt, Num(0)>>), CoordLine(<<Num(1), Num(2), Num(3)>>)>>,
    <<HeaderLine(<<Txt, Txt, Txt, Txt>>), CoordLine(<<Num(1), Num(2), Num(3)>>)>>,
    <<HeaderLine(<<Txt, Txt, Num(-1), Txt>>), CoordLine(<<Num(1), Num(2), Num(3)>>)>>,
    <<CoordLine(<<Num(1), Num(2), Num(3)>>)>>,
    <<GoodHeader, CoordLine(<<Num(1), Num(2)>>)>>,
    <<GoodHeader, CoordLine(<<Num(1), Txt, Num(3)>>)>>,
    <<GoodHeader, CoordLine(<<Num(1), Num(2), Num(3)>>), GoodHeader>>,
    <<GoodHeader, CoordLine(<<Num(1), Num(2), Num(3), Num(4)>>)>>,
    <<GoodHeader, CoordLine(<<Num(1), Num(2), Num(3), Txt>>)>>
}

\* the documents handed to Mapper::try_from: one block, two blocks with an
\* empty line between them, a block followed by an empty line, no line at all
Documents ==
    ParseBlocks
    \cup {a \o <<EmptyLine>> \o b : a \in ParseBlocks, b \in ParseBlocks}
    \cup {a \o <<EmptyLine>> : a \in ParseBlocks}
    \cup {<< >>}

\* Beacon::from_str: the first three pieces must be there and be integers;
\* what follows a third comma is never looked at
BeaconFromStr(line) ==
    IF Len(line.commas) >= 3 /\ \A k \in 1..3 : line.commas[k].int
    THEN Some(<<line.commas[1].v, line.commas[2].v, line.commas[3].v>>)
    ELSE None

\* Scanner::try_from: Some(scanner) for Ok, None for Err
ScannerTryFrom(value) ==
    IF Len(value) = 0 THEN None
    ELSE IF Len(value[1].ws) < 4 THEN None
    ELSE IF ~(value[1].ws[3].int /\ value[1].ws[3].v >= 0) THEN None
    ELSE IF \E k \in 2..Len(value) : BeaconFromStr(value[k]) = None THEN None
    ELSE Some(ScannerNew(value[1].ws[3].v,
                         [k \in 1..(Len(value) - 1) |-> Unwrap(BeaconFromStr(value[k + 1]))]))

\* value.split(|s| s.is_empty()): the runs of lines between the empty lines
RECURSIVE SplitOnEmpty(_, _)
SplitOnEmpty(lines, cur) ==
    IF Len(lines) = 0 THEN <<cur>>
    ELSE IF lines[1] = EmptyLine
         THEN <<cur>> \o SplitOnEmpty(Tail(lines), << >>)
         ELSE SplitOnEmpty(Tail(lines), Append(cur, lines[1]))

\* Mapper::try_from: Some(scanners) for Ok, None for Err
MapperTryFrom(value) ==
    LET blocks == SplitOnEmpty(value, << >>)
        parsed == [k \in 1..Len(blocks) |-> ScannerTryFrom(blocks[k])]
    IN  IF \E k \in 1..Len(blocks) : parsed[k] = None THEN None
        ELSE Some([i \in 0..(Len(blocks) - 1) |-> Unwrap(parsed[i + 1])])

InitParse ==
    \E doc \in Documents :
        /\ truth = << >>
        /\ input = doc
        /\ scanners = << >>
        /\ beacons = {}
        /\ solved = {}
        /\ pending = {}
        /\ already_checked = {}
        /\ pc = "parse"
        /\ r_iter = {}
        /\ r_idx = 0
        /\ p_iter = {}
        /\ passes = 0
        /\ placed_in_pass = 0
        /\ last = NoAttempt
        /\ par_todo = {}
        /\ par_done = << >>
        /\ first_call = None

\* Mapper::try_from(input): a Mapper, or an error and no Mapper
ParseDocument ==
    /\ pc = "parse"
    /\ \E res \in {MapperTryFrom(input)} :
           IF IsSome(res)
           THEN scanners' = Unwrap(res) /\ pc' = "parsed"
           ELSE scanners' = scanners /\ pc' = "parse_error"
    /\ UNCHANGED <<first_call, par_todo, par_done, truth, input, beacons, solved, pending,
                   already_checked, r_iter, r_idx, p_iter, passes, placed_in_pass,
                   last>>

NextParse == ParseDocument

ParseSpec == InitParse /\ [][NextParse]_vars

-----------------------------------------------------------------------------
(* C28: Mapper::try_from yields a Mapper exactly when every block of the   *)
(* document is well formed: a header of at least four tokens whose third   *)
(* is an unsigned integer, followed by lines of three comma-separated      *)
(* integers; an empty block, a shorter header, a non-numeric index or any  *)
(* malformed coordinate line in any block gives an error and no Mapper.    *)

WellFormedCoordLine(line) ==
    /\ Len(line.commas) = 3
    /\ \A k \in 1..3 : line.commas[k].int

WellFormedBlock(block) ==
    /\ Len(block) >= 1
    /\ Len(block[1].ws) >= 4
    /\ block[1].ws[3].int
    /\ block[1].ws[3].v >= 0
    /\ \A k \in 2..Len(block) : WellFormedCoordLine(block[k])

DocumentBlocks == SplitOnEmpty(input, << >>)

C28_MalformedRejected ==
    /\ pc = "parsed" =>
           \A k \in 1..Len(DocumentBlocks) : WellFormedBlock(DocumentBlocks[k])
    /\ pc = "parse_error" =>
           /\ \E k \in 1..Len(DocumentBlocks) : ~WellFormedBlock(DocumentBlocks[k])
           /\ scanners = << >>

-----------------------------------------------------------------------------
(* A second call of correlate on a Mapper whose first call has returned.   *)

\* what the caller can see of a Mapper and its landmark set
Outcome(scs, bs) ==
    [beacons  |-> [i \in DOMAIN scs |-> scs[i].beacons],
     offsets  |-> [i \in DOMAIN scs |-> scs[i].offset],
     global   |-> bs,
     largest  |-> largest_distance(scs)]

\* the caller calls correlate again, with the same set or with a fresh one:
\* the locals of the new call are new, the Mapper is the one left behind
CallAgain ==
    /\ pc = "done"
    /\ pending = {}
    /\ first_call = None
    /\ first_call' = Some(Outcome(scanners, beacons))
    /\ \E fresh \in BOOLEAN : beacons' = IF fresh THEN {} ELSE beacons
    /\ solved' = {}
    /\ already_checked' = {}
    /\ r_iter' = {}
    /\ r_idx' = 0
    /\ p_iter' = {}
    /\ passes' = 0
    /\ placed_in_pass' = 0
    /\ last' = NoAttempt
    /\ pc' = "start"
    /\ UNCHANGED <<par_todo, par_done, truth, input, scanners, pending>>

NextTwice ==
    \/ Next
    \/ CallAgain

TwiceSpec == Init /\ [][NextTwice]_vars

(* C29: a second call of correlate on a completed Mapper leaves every      *)
(* sensor's landmark coordinates, every sensor's recorded offset, the      *)
(* global landmark set and largest_distance as the first call left them.   *)
C29_SecondCallIdempotent ==
    (IsSome(first_call) /\ pc = "done") =>
        Outcome(scanners, beacons) = Unwrap(first_call)

-----------------------------------------------------------------------------
(* Scanner::par_find_by_distances step by step: scanner 0 is searched for  *)
(* the fingerprint of the landmark at position r_idx of scanner 1; the     *)
(* workers test the positions in any order and find_any takes the first    *)
(* hit that any of them reports                                            *)

\* <<view of the searched sensor, view the fingerprint is taken from>>
FindPairs == {<<"A3", "B3">>, <<"Vl", "Vl">>, <<"A1", "B1">>, <<"Va", "Vb">>,
              <<"A6", "B6">>, <<"A5", "B5">>, <<"Va", "Vz">>, <<"B3", "B3">>}

FindTruths ==
    {(0 :> [view |-> pr[1], rot |-> 0, trans |-> <<0, 0, 0>>]) @@
     (1 :> [view |-> pr[2], rot |-> 17, trans |-> tr])
     : <<pr, tr>> \in FindPairs \X Translations}

InitFind ==
    \E tr \in FindTruths :
        /\ truth = tr
        /\ input = [i \in DOMAIN tr |-> Pose(ViewOf[tr[i].view], tr[i].rot, tr[i].trans)]
        /\ scanners = MapperNew(input)
        /\ beacons = {}
        /\ solved = {}
        /\ pending = {}
        /\ already_checked = {}
        /\ pc = "find_any"
        /\ r_iter = {}
        /\ r_idx \in 1..Len(input[1])
        /\ p_iter = {}
        /\ passes = 0
        /\ placed_in_pass = 0
        /\ last = NoAttempt
        /\ par_todo = 1..Len(scanners[0].dist_map)
        /\ par_done = << >>
        /\ first_call = None

\* the fingerprint that is looked up
distances == scanners[1].dist_map[r_idx]

\* the test of both searches: at least THRESHOLD - 1 measurements in common
enough_in_common(dists) == Cardinality(distances \cap dists) >= THRESHOLD - 1

\* the search gives up while positions are still untested
FindNone_gives_up_early ==
    /\ pc = "find_any"
    /\ last' = [NoAttempt EXCEPT !.kind = "find", !.found = None]
    /\ pc' = "not_found"
    /\ UNCHANGED <<first_call, par_todo, par_done, truth, input, scanners, beacons, solved,
                   pending, already_checked, r_iter, r_idx, p_iter, passes,
                   placed_in_pass>>

\* line 285: a worker tests one position; a hit ends the search with that index
WorkerTest ==
    /\ pc = "find_any"
    /\ \E idx \in par_todo :
        /\ par_todo' = par_todo \ {idx}
        /\ IF enough_in_common(scanners[0].dist_map[idx])
           THEN /\ last' = [NoAttempt EXCEPT !.kind = "find", !.found = Some(idx)]
                /\ pc' = "found"
           ELSE UNCHANGED <<last, pc>>
    /\ UNCHANGED <<first_call, par_done, truth, input, scanners, beacons, solved, pending,
                   already_checked, r_iter, r_idx, p_iter, passes, placed_in_pass>>

\* lines 282-286: every position was tested and none was a hit
FindNone ==
    /\ pc = "find_any"
    /\ par_todo = {}
    /\ last' = [NoAttempt EXCEPT !.kind = "find", !.found = None]
    /\ pc' = "not_found"
    /\ UNCHANGED <<first_call, par_todo, par_done, truth, input, scanners, beacons, solved,
                   pending, already_checked, r_iter, r_idx, p_iter, passes,
                   placed_in_pass>>

NextFind ==
    \/ WorkerTest
    \/ FindNone

FindSpec == InitFind /\ [][NextFind]_vars

\* the positions of scanner 0 that pass the test
Hits == {idx \in 1..Len(scanners[0].dist_map) : enough_in_common(scanners[0].dist_map[idx])}

(* C30: par_find_by_distances gives Some exactly when find_by_distances    *)
(* does; an index that either of them gives passes the test of at least    *)
(* THRESHOLD - 1 common measurements; find_by_distances gives the lowest   *)
(* such index, par_find_by_distances gives one of them, whichever a worker *)
(* reports first.                                                          *)
C30_ParFindAgrees ==
    \E seq \in {find_by_distances(scanners[0], distances)} :
        /\ IsSome(seq) <=> Hits # {}
        /\ IsSome(seq) => Unwrap(seq) \in Hits /\ \A j \in Hits : Unwrap(seq) <= j
        /\ pc = "found" => IsSome(seq) /\ IsSome(last.found) /\ Unwrap(last.found) \in Hits
        /\ pc = "not_found" => seq = None /\ last.found = None

\* the parallel search has returned a hit that is not the lowest one
C30_Witness ==
    /\ pc = "found"
    /\ Unwrap(last.found) # Unwrap(find_by_distances(scanners[0], distances))
    /\ Cardinality(Hits) >= 2
====
